---- MODULE Spec2Model ----
(***************************************************************************)
(* A model of SCASO Grabber (src/src/scaso.py, src/src/constants.py):      *)
(* the page range resolver, the Agent and its request observer, the asset  *)
(* locator, the asset downloader with its retry loop, the document         *)
(* assembler and the orchestrator that sequences them.                     *)
(***************************************************************************)
EXTENDS Integers, Sequences, FiniteSets, TLC

(***************************************************************************)
(* Bounds of the model.                                                    *)
(***************************************************************************)
\* longest range spec, in characters
MaxSpecLen == 5
\* largest total page count handed to the range resolver
MaxTotal == 4
\* largest total page count handed to the downloader
MaxPages == 2
\* largest retry count
MaxRetries == 1
\* longest "space" array of a manifest
MaxManifestLen == 2
\* most page files handed to the assembler
MaxFiles == 3
\* longest "space" array handed to the asset locator on its own
MaxDescriptors == 3
\* largest page index of a descriptor handed to the asset locator
MaxIndex == 3
\* largest retry count where one asset's retry loop is followed to its end
MaxLoopRetries == 3
\* most requests the Agent's observer is given in one browser session
MaxObserved == 3

(***************************************************************************)
(* Program constants (src/src/constants.py).                               *)
(***************************************************************************)
DEFAULT_THROTTLE_MS == 75
DEFAULT_RETRIES == 2

\* the status of a good response (scaso.py 338)
HTTP_OK == 200
\* the base of the backoff delay, 0.75 s, in milliseconds (scaso.py 335, 345)
BACKOFF_MS == 750

\* Python's None, kept comparable with the tuples and strings it stands in for
None == <<"None">>

(***************************************************************************)
(* Strings are sequences of one-character strings.                         *)
(***************************************************************************)
Digits == {"0", "1", "2", "5"}
\* the characters range specs are drawn from
Alphabet == Digits \cup {"-", ",", " "}

DigitVal(c) ==
    CASE c = "0" -> 0 [] c = "1" -> 1 [] c = "2" -> 2 [] c = "3" -> 3
      [] c = "4" -> 4 [] c = "5" -> 5 [] c = "6" -> 6 [] c = "7" -> 7
      [] c = "8" -> 8 [] c = "9" -> 9

RECURSIVE StringsUpTo(_)
StringsUpTo(n) ==
    IF n = 0 THEN {<<>>}
    ELSE LET shorter == StringsUpTo(n - 1)
             longest == {t \in shorter : Len(t) = n - 1}
         IN  shorter \cup {Append(s, c) : s \in longest, c \in Alphabet}

Chars(s) == {s[k] : k \in 1..Len(s)}

\* str.strip(): leading and trailing whitespace removed
RECURSIVE strip(_)
strip(s) ==
    IF s = <<>> THEN s
    ELSE IF Head(s) = " " THEN strip(Tail(s))
    ELSE IF s[Len(s)] = " " THEN strip(SubSeq(s, 1, Len(s) - 1))
    ELSE s

\* position of the first occurrence of c in s, 0 when there is none
FirstIndex(s, c) ==
    IF c \in Chars(s)
    THEN CHOOSE k \in 1..Len(s) : s[k] = c /\ \A j \in 1..(k - 1) : s[j] # c
    ELSE 0

\* str.split(sep): k separators give k+1 pieces, empty pieces included
RECURSIVE split(_, _)
split(s, sep) ==
    LET k == FirstIndex(s, sep)
    IN  IF k = 0 THEN <<s>>
        ELSE <<SubSeq(s, 1, k - 1)>> \o split(SubSeq(s, k + 1, Len(s)), sep)

\* str.split(sep, 1): the text before and after the first separator
split1(s, sep) ==
    LET k == FirstIndex(s, sep)
    IN  <<SubSeq(s, 1, k - 1), SubSeq(s, k + 1, Len(s))>>

RECURSIVE DigitsValue(_)
DigitsValue(s) ==
    IF s = <<>> THEN 0
    ELSE 10 * DigitsValue(SubSeq(s, 1, Len(s) - 1)) + DigitVal(s[Len(s)])

ValueError == [ok |-> FALSE, val |-> 0]

\* int(text): surrounding whitespace stripped, one optional sign, then
\* decimal digits only; anything else raises ValueError
int(text) ==
    LET t == strip(text)
        signed == t # <<>> /\ Head(t) \in {"-", "+"}
        body == IF signed THEN Tail(t) ELSE t
    IN  IF body = <<>> \/ ~(Chars(body) \subseteq Digits)
        THEN ValueError
        ELSE [ok |-> TRUE,
              val |-> IF signed /\ Head(t) = "-"
                      THEN 0 - DigitsValue(body) ELSE DigitsValue(body)]

Max(a, b) == IF a >= b THEN a ELSE b
Min(a, b) == IF a <= b THEN a ELSE b

\* sorted(set): the elements in ascending order
RECURSIVE sorted(_)
sorted(S) ==
    IF S = {} THEN <<>>
    ELSE LET m == CHOOSE x \in S : \A y \in S : x <= y
         IN  <<m>> \o sorted(S \ {m})

\* a resolver counting pages from 1
RangeTupleOneBased(n) == [k \in 1..Max(n, 0) |-> k]

\* tuple(range(n))
RangeTuple(n) == [k \in 1..Max(n, 0) |-> k - 1]

(***************************************************************************)
(* parse_page_range (scaso.py 127-164).                                    *)
(***************************************************************************)
\* parts = [p.strip() for p in spec.split(",") if p.strip()]
Parts(spec) ==
    LET pieces == split(spec, ",")
    IN  SelectSeq([k \in 1..Len(pieces) |-> strip(pieces[k])],
                  LAMBDA p : p # <<>>)

\* a resolver that does not clamp the end of a range to the page count
DashedPartUnclamped(part, total) ==
    LET lr == split1(part, "-")
        left == int(lr[1])
        right == int(lr[2])
        start == Max(1, left.val)
        end == right.val
    IN  IF ~left.ok \/ ~right.ok THEN {}
        ELSE IF start <= end THEN {i - 1 : i \in start..end}
        ELSE {}

\* the branch of the loop body taken for a part holding "-"
DashedPart(part, total) ==
    LET lr == split1(part, "-")
        left == int(lr[1])
        right == int(lr[2])
        start == Max(1, left.val)
        end == Min(total, right.val)
    IN  IF ~left.ok \/ ~right.ok THEN {}
        ELSE IF start <= end THEN {i - 1 : i \in start..end}
        ELSE {}

\* a resolver that keeps a single page number 1-based
SinglePartOneBased(part, total) ==
    LET one == int(part)
    IN  IF ~one.ok THEN {}
        ELSE IF 1 <= one.val /\ one.val <= total THEN {one.val}
        ELSE {}

\* the branch of the loop body taken for a part without "-"
SinglePart(part, total) ==
    LET one == int(part)
    IN  IF ~one.ok THEN {}
        ELSE IF 1 <= one.val /\ one.val <= total THEN {one.val - 1}
        ELSE {}

\* what one pass of the loop body adds to wanted
PartIndices(part, total) ==
    IF "-" \in Chars(part) THEN DashedPart(part, total)
    ELSE SinglePart(part, total)

\* the loop over parts, accumulating wanted
RECURSIVE Wanted(_, _)
Wanted(parts, total) ==
    IF parts = <<>> THEN {}
    ELSE PartIndices(Head(parts), total) \cup Wanted(Tail(parts), total)

\* a resolver without the fallback to every page
IndicesOnly(indices, total) == indices

\* the last line: the sorted indices, or every page when there are none
IndicesOrAll(indices, total) ==
    IF indices # <<>> THEN indices ELSE RangeTuple(total)

parse_page_range(spec, total) ==
    IF spec = None \/ spec = <<>> THEN RangeTuple(total)
    ELSE IndicesOrAll(sorted(Wanted(Parts(spec), total)), total)

(***************************************************************************)
(* State.                                                                  *)
(***************************************************************************)
VARIABLES
    pc,            \* position of the program
    page_range,    \* options.page_range: a range spec or None
    total_pages,   \* total page count
    page_indices,  \* the resolved 0-based indices
    formats,       \* options.formats
    retries,       \* options.retries
    throttle_ms,   \* options.throttle_ms
    disk,          \* the output directory: the state of each file
    pos,           \* download_assets: place in the loop over page_indices
    site,          \* which call of _http_get is running: svg, mxl or mid
    attempt,       \* _http_get: the loop variable
    resp,          \* _http_get: the last response, or None
    data,          \* what _http_get returned
    svg_paths_list,\* download_assets: saved page paths, by page index
    mxl_path,      \* download_assets: the saved MusicXML path or None
    mid_path,      \* download_assets: the saved MIDI path or None
    requests,      \* observer: requests issued so far, per asset
    events,        \* observer: what the current asset's fetch did, in order
    no_pdf,        \* options.no_pdf
    pdf_engine,    \* options.pdf_engine
    svg_paths,     \* combine_svgs_to_pdf: the page files, by page index
    cb_pos,        \* combine_svgs_to_pdf: place in the loop over svg_paths
    writer,        \* combine_svgs_to_pdf: the pages added to the PdfWriter
    pdf_doc,       \* the pages of the document written to pdf_path, or None
    pdf_ret,       \* what combine_svgs_to_pdf returned
    printed,       \* the kinds of message printed by safe_print
    cb_failed,     \* observer: the page files whose conversion failed
    space_url,     \* run: the captured manifest URL or None
    space_data,    \* run: the parsed manifest
    status,        \* what run returned
    out_dir_made,  \* observer: run has called out_dir.mkdir
    playwright,    \* the Agent: the sync_playwright context
    browser,       \* the Agent: the browser session
    agent_url,     \* the Agent: its nonlocal space_url, set by on_request
    observed,      \* observer: the URLs of the requests on_request was given
    raised         \* the Agent: the exception leaving it, if any

opts == <<page_range, formats, retries, throttle_ms, no_pdf, pdf_engine>>
dlvars == <<pos, site, attempt, resp, data, svg_paths_list, mxl_path, mid_path,
            requests, events>>
cbvars == <<svg_paths, cb_pos, writer, pdf_doc, pdf_ret, cb_failed>>
agvars == <<playwright, browser, agent_url, observed, raised>>
runvars == <<space_url, space_data, status, out_dir_made, agvars>>
vars == <<pc, total_pages, page_indices, disk, opts, dlvars, cbvars, printed,
          runvars>>
\* what download_assets is called with, and what it never touches
args == <<total_pages, page_indices>>
others == <<cbvars, printed, runvars>>

(***************************************************************************)
(* Files and assets.  A file is named by its kind and, for a page, its     *)
(* 0-based index; the same pair names the remote asset it is fetched from. *)
(***************************************************************************)
Svg(i) == <<"svg", i>>
Mxl == <<"mxl", 0>>
Mid == <<"mid", 0>>
Pdf == <<"pdf", 0>>
Files == {Svg(i) : i \in 0..(MaxPages - 1)} \cup {Mxl, Mid, Pdf}
NoRequests == [a \in Files |-> 0]

\* a presence check with the size test the wrong way round
ExistsEmpty(d, f) == d[f] = "empty"

\* out_file.exists() and out_file.stat().st_size > 0
ExistsNonEmpty(d, f) == d[f] \in {"old", "new"}

want_svg == "svg" \in formats
want_mxl == "mxl" \in formats
want_mid == "mid" \in formats \/ "midi" \in formats

(***************************************************************************)
(* _http_get (scaso.py 307-347).                                           *)
(***************************************************************************)
SomeBytes == <<"b">>
NoResponse == [exc |-> FALSE, status_code |-> 0, content |-> <<>>]
TransportError == [exc |-> TRUE, status_code |-> 0, content |-> <<>>]
Responses ==
    {TransportError} \cup
    [exc : {FALSE}, status_code : {HTTP_OK, 404}, content : {<<>>, SomeBytes}]

\* a success test that forgets the body
IsSuccessStatusOnly(r) == r.status_code = HTTP_OK

\* resp.status_code == 200 and resp.content
IsSuccess(r) == r.status_code = HTTP_OK /\ r.content # <<>>

\* the asset the running call of _http_get fetches
CurrentAsset ==
    CASE site = "svg" -> Svg(page_indices[pos])
      [] site = "mxl" -> Mxl
      [] site = "mid" -> Mid

\* a backoff that does not grow with the attempts
BackoffSleepConstant(a) ==
    IF a < retries THEN <<<<"backoff", BACKOFF_MS>>>> ELSE <<>>

\* if attempt < retries: time.sleep(0.75 * (attempt + 1))
BackoffSleep(a) ==
    IF a < retries THEN <<<<"backoff", BACKOFF_MS * (a + 1)>>>> ELSE <<>>

\* if throttle_ms: time.sleep(throttle_ms / 1000.0)
ThrottleSleep ==
    IF throttle_ms # 0 THEN <<<<"throttle", throttle_ms>>>> ELSE <<>>

\* a retry budget shared by all assets: attempt is not reset
CallHttpGetSharedBudget(s) ==
    /\ site' = s
    /\ attempt' = attempt
    /\ resp' = NoResponse
    /\ data' = None
    /\ events' = <<>>
    /\ pc' = "http_loop"

\* a loop that makes one attempt more than retries + 1
CallHttpGetExtraAttempt(s) ==
    /\ site' = s
    /\ attempt' = 0 - 1
    /\ resp' = NoResponse
    /\ data' = None
    /\ events' = <<>>
    /\ pc' = "http_loop"

\* entering _http_get from one of its three call sites
CallHttpGet(s) ==
    /\ site' = s
    /\ attempt' = 0
    /\ resp' = NoResponse
    /\ data' = None
    /\ events' = <<>>
    /\ pc' = "http_loop"

\* one pass of the loop body: the request, and what follows its outcome
HttpAttempt ==
    /\ pc = "http_loop"
    /\ attempt <= retries
    /\ \E r \in Responses :
         /\ resp' = r
         /\ requests' = [requests EXCEPT ![CurrentAsset] = @ + 1]
         /\ IF ~r.exc /\ IsSuccess(r)
            THEN /\ events' = events \o <<<<"request", attempt>>>>
                                     \o ThrottleSleep
                 /\ data' = r.content
                 /\ pc' = "http_ret"
                 /\ UNCHANGED attempt
            ELSE /\ events' = events \o <<<<"request", attempt>>>>
                                     \o BackoffSleep(attempt)
                 /\ attempt' = attempt + 1
                 /\ UNCHANGED <<pc, data>>
    /\ UNCHANGED <<others, args, disk, opts, pos, site, svg_paths_list,
                   mxl_path, mid_path>>

\* the loop ran out of attempts: return None
HttpExhausted ==
    /\ pc = "http_loop"
    /\ attempt > retries
    /\ data' = None
    /\ pc' = "http_ret"
    /\ UNCHANGED <<others, args, disk, opts, pos, site, attempt, resp,
                   svg_paths_list, mxl_path, mid_path, requests, events>>

(***************************************************************************)
(* download_assets (scaso.py 350-441).                                     *)
(***************************************************************************)
\* if data:
Truthy(d) == d # None /\ d # <<>>

\* lines 371-379 and 402-403: into the page loop, or past it
DlStart ==
    /\ pc = "dl_start"
    /\ svg_paths_list' = <<>>
    /\ pos' = 1
    /\ pc' = IF want_svg /\ total_pages > 0 THEN "dl_pages" ELSE "dl_mxl"
    /\ UNCHANGED <<others, args, disk, opts, site, attempt, resp, data,
                   mxl_path, mid_path, requests, events>>

\* a downloader that leaves a page found on disk out of the page list
PageSkipUnlisted ==
    /\ pc = "dl_pages"
    /\ pos <= Len(page_indices)
    /\ ExistsNonEmpty(disk, Svg(page_indices[pos]))
    /\ pos' = pos + 1
    /\ UNCHANGED <<others, pc, args, disk, opts, site, attempt, resp, data,
                   svg_paths_list, mxl_path, mid_path, requests, events>>

\* lines 384-387: the page is on disk already
PageSkip ==
    /\ pc = "dl_pages"
    /\ pos <= Len(page_indices)
    /\ ExistsNonEmpty(disk, Svg(page_indices[pos]))
    /\ svg_paths_list' = Append(svg_paths_list, page_indices[pos])
    /\ pos' = pos + 1
    /\ UNCHANGED <<others, pc, args, disk, opts, site, attempt, resp, data,
                   mxl_path, mid_path, requests, events>>

\* lines 389-394: the page is fetched
PageFetch ==
    /\ pc = "dl_pages"
    /\ pos <= Len(page_indices)
    /\ ~ExistsNonEmpty(disk, Svg(page_indices[pos]))
    /\ CallHttpGet("svg")
    /\ UNCHANGED <<others, args, disk, opts, pos, svg_paths_list, mxl_path,
                   mid_path, requests>>

\* a downloader that lists a page whether or not its fetch succeeded
PageStoreAlways ==
    /\ pc = "http_ret"
    /\ site = "svg"
    /\ IF Truthy(data)
       THEN /\ disk' = [disk EXCEPT ![Svg(page_indices[pos])] = "new"]
            /\ events' = Append(events, <<"persist", 0>>)
       ELSE UNCHANGED <<disk, events>>
    /\ svg_paths_list' = Append(svg_paths_list, page_indices[pos])
    /\ pos' = pos + 1
    /\ pc' = "dl_pages"
    /\ UNCHANGED <<others, args, opts, site, attempt, resp, data, mxl_path,
                   mid_path, requests>>

\* lines 395-401: the fetched page is saved, or reported as failed
PageStore ==
    /\ pc = "http_ret"
    /\ site = "svg"
    /\ IF Truthy(data)
       THEN /\ disk' = [disk EXCEPT ![Svg(page_indices[pos])] = "new"]
            /\ events' = Append(events, <<"persist", 0>>)
            /\ svg_paths_list' = Append(svg_paths_list, page_indices[pos])
       ELSE UNCHANGED <<disk, events, svg_paths_list>>
    /\ pos' = pos + 1
    /\ pc' = "dl_pages"
    /\ UNCHANGED <<others, args, opts, site, attempt, resp, data, mxl_path,
                   mid_path, requests>>

\* the page loop has run through page_indices
PagesDone ==
    /\ pc = "dl_pages"
    /\ pos > Len(page_indices)
    /\ pc' = "dl_mxl"
    /\ UNCHANGED <<others, args, disk, opts, dlvars>>

\* lines 405-414
MxlFetch ==
    /\ pc = "dl_mxl"
    /\ mxl_path' = None
    /\ IF want_mxl
       THEN CallHttpGet("mxl")
       ELSE /\ pc' = "dl_mid"
            /\ UNCHANGED <<site, attempt, resp, data, events>>
    /\ UNCHANGED <<others, args, disk, opts, pos, svg_paths_list, mid_path,
                   requests>>

\* lines 415-421
MxlStore ==
    /\ pc = "http_ret"
    /\ site = "mxl"
    /\ IF Truthy(data)
       THEN /\ disk' = [disk EXCEPT ![Mxl] = "new"]
            /\ events' = Append(events, <<"persist", 0>>)
            /\ mxl_path' = Mxl
       ELSE UNCHANGED <<disk, events, mxl_path>>
    /\ pc' = "dl_mid"
    /\ UNCHANGED <<others, args, opts, pos, site, attempt, resp, data,
                   svg_paths_list, mid_path, requests>>

\* lines 423-432
MidFetch ==
    /\ pc = "dl_mid"
    /\ mid_path' = None
    /\ IF want_mid
       THEN CallHttpGet("mid")
       ELSE /\ pc' = "dl_done"
            /\ UNCHANGED <<site, attempt, resp, data, events>>
    /\ UNCHANGED <<others, args, disk, opts, pos, svg_paths_list, mxl_path,
                   requests>>

\* lines 433-441
MidStore ==
    /\ pc = "http_ret"
    /\ site = "mid"
    /\ IF Truthy(data)
       THEN /\ disk' = [disk EXCEPT ![Mid] = "new"]
            /\ events' = Append(events, <<"persist", 0>>)
            /\ mid_path' = Mid
       ELSE UNCHANGED <<disk, events, mid_path>>
    /\ pc' = "dl_done"
    /\ UNCHANGED <<others, args, opts, pos, site, attempt, resp, data,
                   svg_paths_list, mxl_path, requests>>

Download ==
    \/ DlStart \/ PageSkip \/ PageFetch \/ PageStore \/ PagesDone
    \/ MxlFetch \/ MxlStore \/ MidFetch \/ MidStore
    \/ HttpAttempt \/ HttpExhausted

\* the state of download_assets' locals before it is called
DlIdle ==
    /\ pos = 1
    /\ site = "none"
    /\ attempt = 0
    /\ resp = NoResponse
    /\ data = None
    /\ svg_paths_list = <<>>
    /\ mxl_path = None
    /\ mid_path = None
    /\ requests = NoRequests
    /\ events = <<>>

(***************************************************************************)
(* combine_svgs_to_pdf (scaso.py 447-505).                                 *)
(***************************************************************************)
PDF_ENGINES == {"cairosvg", "none"}
\* the engine identifiers tried: those of PDF_ENGINES and an unknown one
Engines == PDF_ENGINES \cup {"inkscape"}

\* the state of combine_svgs_to_pdf's locals before it is called
CbIdle ==
    /\ svg_paths = <<>>
    /\ cb_pos = 1
    /\ writer = <<>>
    /\ pdf_doc = None
    /\ pdf_ret = "none"
    /\ cb_failed = {}

\* a return False before any page is read
CbReturnFalse(msg) ==
    /\ printed' = printed \cup {msg}
    /\ pdf_ret' = "False"
    /\ pc' = "cb_done"
    /\ UNCHANGED <<cb_pos, writer, pdf_doc, cb_failed, disk>>

\* an assembler without the check for an unknown engine
CbStartUnchecked ==
    /\ pc = "cb_start"
    /\ IF svg_paths = <<>> THEN CbReturnFalse("no svgs")
       ELSE IF pdf_engine = "none" THEN CbReturnFalse("combine disabled")
       ELSE \/ CbReturnFalse("missing dependency")
            \/ /\ writer' = <<>>
               /\ cb_pos' = 1
               /\ pc' = "cb_loop"
               /\ UNCHANGED <<pdf_doc, pdf_ret, cb_failed, disk, printed>>
    /\ UNCHANGED <<svg_paths, total_pages, page_indices, opts, dlvars, runvars>>

\* lines 463-488: the guards, the imports and the new PdfWriter
CbStart ==
    /\ pc = "cb_start"
    /\ IF svg_paths = <<>> THEN CbReturnFalse("no svgs")
       ELSE IF pdf_engine = "none" THEN CbReturnFalse("combine disabled")
       ELSE IF pdf_engine # "cairosvg" THEN CbReturnFalse("unknown engine")
       ELSE \/ CbReturnFalse("missing dependency")
            \/ /\ writer' = <<>>
               /\ cb_pos' = 1
               /\ pc' = "cb_loop"
               /\ UNCHANGED <<pdf_doc, pdf_ret, cb_failed, disk, printed>>
    /\ UNCHANGED <<svg_paths, total_pages, page_indices, opts, dlvars, runvars>>

\* an assembler that gives up the loop at the first failing page
CbConvertAborting ==
    /\ pc = "cb_loop"
    /\ cb_pos <= Len(svg_paths)
    /\ \/ /\ writer' = Append(writer, svg_paths[cb_pos])
          /\ cb_pos' = cb_pos + 1
          /\ UNCHANGED <<cb_failed, printed>>
       \/ /\ cb_failed' = cb_failed \cup {svg_paths[cb_pos]}
          /\ printed' = printed \cup {"failed to convert"}
          /\ cb_pos' = Len(svg_paths) + 1
          /\ UNCHANGED writer
    /\ UNCHANGED <<pc, svg_paths, pdf_doc, pdf_ret, disk, total_pages,
                   page_indices, opts, dlvars, runvars>>

\* lines 489-499: one page file is converted and its page added, or the
\* conversion raises and the file is skipped
CbConvert ==
    /\ pc = "cb_loop"
    /\ cb_pos <= Len(svg_paths)
    /\ \/ /\ writer' = Append(writer, svg_paths[cb_pos])
          /\ UNCHANGED <<cb_failed, printed>>
       \/ /\ cb_failed' = cb_failed \cup {svg_paths[cb_pos]}
          /\ printed' = printed \cup {"failed to convert"}
          /\ UNCHANGED writer
    /\ cb_pos' = cb_pos + 1
    /\ UNCHANGED <<pc, svg_paths, pdf_doc, pdf_ret, disk, total_pages,
                   page_indices, opts, dlvars, runvars>>

\* an assembler that writes no document when no page was converted
CbWriteNonEmptyOnly ==
    /\ pc = "cb_loop"
    /\ cb_pos > Len(svg_paths)
    /\ IF writer # <<>>
       THEN /\ pdf_doc' = writer
            /\ disk' = [disk EXCEPT ![Pdf] = "new"]
            /\ printed' = printed \cup {"pdf saved"}
            /\ pdf_ret' = "True"
       ELSE /\ pdf_ret' = "False"
            /\ UNCHANGED <<pdf_doc, disk, printed>>
    /\ pc' = "cb_done"
    /\ UNCHANGED <<svg_paths, cb_pos, writer, cb_failed, total_pages,
                   page_indices, opts, dlvars, runvars>>

\* lines 501-505: the document is written
CbWrite ==
    /\ pc = "cb_loop"
    /\ cb_pos > Len(svg_paths)
    /\ pdf_doc' = writer
    /\ disk' = [disk EXCEPT ![Pdf] = "new"]
    /\ printed' = printed \cup {"pdf saved"}
    /\ pdf_ret' = "True"
    /\ pc' = "cb_done"
    /\ UNCHANGED <<svg_paths, cb_pos, writer, cb_failed, total_pages,
                   page_indices, opts, dlvars, runvars>>

Combine == CbStart \/ CbConvert \/ CbWrite

(***************************************************************************)
(* capture_space_jsonp_and_title (scaso.py 170-230).  A URL is the         *)
(* sequence of its parts.                                                  *)
(***************************************************************************)
\* the URLs of the requests a score page sends: two of them manifest URLs
Urls ==
    {<<"cdn", "a", "space.jsonp">>, <<"cdn", "b", "space.jsonp">>,
     <<"cdn", "a", "score_0.svg">>, <<"site", "score">>}

\* "space.jsonp" in url
IsSpaceJsonp(url) == \E k \in 1..Len(url) : url[k] = "space.jsonp"

\* the state of the Agent before it is called
AgentIdle ==
    /\ playwright = "none"
    /\ browser = "none"
    /\ agent_url = None
    /\ observed = <<>>
    /\ raised = "none"

\* lines 191-192: the playwright context is entered and the browser
\* launched, or the launch raises
AgentLaunch ==
    /\ pc = "agent_start"
    /\ playwright' = "started"
    /\ \/ /\ browser' = "open"
          /\ pc' = "agent_context"
          /\ UNCHANGED raised
       \/ /\ raised' = "launch error"
          /\ pc' = "agent_exit"
          /\ UNCHANGED browser
    /\ UNCHANGED <<agent_url, observed, total_pages, page_indices, disk, opts,
                   dlvars, cbvars, printed, space_url, space_data, status,
                   out_dir_made>>

\* lines 193-210: the context, the page, space_url = None and the observer,
\* or new_context or new_page raises
AgentContext ==
    /\ pc = "agent_context"
    /\ \/ /\ agent_url' = None
          /\ pc' = "agent_goto"
          /\ UNCHANGED raised
       \/ /\ raised' = "context error"
          /\ pc' = "agent_exit"
          /\ UNCHANGED agent_url
    /\ UNCHANGED <<playwright, browser, observed, total_pages, page_indices,
                   disk, opts, dlvars, cbvars, printed, space_url, space_data,
                   status, out_dir_made>>

\* an observer where the last matching request wins
on_request_last(url) ==
    /\ observed' = Append(observed, url)
    /\ agent_url' = IF IsSpaceJsonp(url) THEN url ELSE agent_url

\* lines 198-208: the observer is given one request
on_request(url) ==
    /\ observed' = Append(observed, url)
    /\ agent_url' = IF IsSpaceJsonp(url) /\ agent_url = None
                    THEN url ELSE agent_url

\* the page sends a request while the browser session is open and the
\* observer is registered: during navigation, the wait and the title reads
AgentRequest ==
    /\ pc \in {"agent_goto", "agent_title"}
    /\ Len(observed) < MaxObserved
    /\ \E url \in Urls : on_request(url)
    /\ UNCHANGED <<pc, playwright, browser, raised, total_pages, page_indices,
                   disk, opts, dlvars, cbvars, printed, space_url, space_data,
                   status, out_dir_made>>

\* lines 212-219: goto and the wait, or browser.close(), the notification
\* and the RuntimeError
AgentGoto ==
    /\ pc = "agent_goto"
    /\ \/ /\ pc' = "agent_title"
          /\ UNCHANGED <<browser, raised, printed>>
       \/ /\ browser' = "closed"
          /\ printed' = printed \cup {"failed to load page"}
          /\ raised' = "RuntimeError"
          /\ pc' = "agent_exit"
    /\ UNCHANGED <<playwright, agent_url, observed, total_pages, page_indices,
                   disk, opts, dlvars, cbvars, space_url, space_data, status,
                   out_dir_made>>

\* lines 221-230: the title is read and browser.close() called, or reading
\* the title raises
AgentTitle ==
    /\ pc = "agent_title"
    /\ \/ /\ browser' = "closed"
          /\ UNCHANGED raised
       \/ /\ raised' = "title error"
          /\ UNCHANGED browser
    /\ pc' = "agent_exit"
    /\ UNCHANGED <<playwright, agent_url, observed, total_pages, page_indices,
                   disk, opts, dlvars, cbvars, printed, space_url, space_data,
                   status, out_dir_made>>

\* a playwright context whose exit leaves a launched browser running
AgentExitLeaving ==
    /\ pc = "agent_exit"
    /\ playwright' = "stopped"
    /\ IF raised = "none"
       THEN /\ space_url' = agent_url
            /\ pc' = "agent_ret"
       ELSE /\ pc' = "agent_raised"
            /\ UNCHANGED space_url
    /\ UNCHANGED <<browser, agent_url, observed, raised, total_pages,
                   page_indices, disk, opts, dlvars, cbvars, printed,
                   space_data, status, out_dir_made>>

\* line 191: the with block is left, by the return or by an exception: the
\* context's exit stops playwright's driver, and with it any browser the
\* driver launched that is still open; then the caller has the result
AgentExit ==
    /\ pc = "agent_exit"
    /\ playwright' = "stopped"
    /\ browser' = IF browser = "open" THEN "closed" ELSE browser
    /\ IF raised = "none"
       THEN /\ space_url' = agent_url
            /\ pc' = "agent_ret"
       ELSE /\ pc' = "agent_raised"
            /\ UNCHANGED space_url
    /\ UNCHANGED <<agent_url, observed, raised, total_pages, page_indices,
                   disk, opts, dlvars, cbvars, printed, space_data, status,
                   out_dir_made>>

Agent ==
    \/ AgentLaunch \/ AgentContext \/ AgentRequest \/ AgentGoto
    \/ AgentTitle \/ AgentExit

(***************************************************************************)
(* fetch_space and derive_base_and_pages (scaso.py 233-301).               *)
(***************************************************************************)
\* a manifest element: its "page" value, or an element without a usable one
PageItem(n) == <<"page", n>>
BadItem == <<"bad", 0>>
Items == {PageItem(n) : n \in 0..(MaxPages - 1)} \cup {BadItem}

RECURSIVE ItemTuples(_)
ItemTuples(n) ==
    IF n = 0 THEN {<<>>}
    ELSE LET shorter == ItemTuples(n - 1)
             longest == {t \in shorter : Len(t) = n - 1}
         IN  shorter \cup {Append(s, x) : s \in longest, x \in Items}

\* parsed manifests: the "space" array, no "space" key, or a "space" value
\* that cannot be iterated
Manifests ==
    [space : {"list"}, items : ItemTuples(MaxManifestLen)]
    \cup {[space |-> "absent", items |-> <<>>],
          [space |-> "not iterable", items |-> <<>>]}

NoManifest == [space |-> "none", items |-> <<>>]

SetMax(S) == CHOOSE x \in S : \A y \in S : y <= x

\* a "page" value given as text, and one given as a number of halves
TextItem(t) == <<"text", t>>
HalvesItem(h) == <<"halves", h>>

\* int(x) of a float: the fraction is dropped, towards zero
Truncate(h) == IF h >= 0 THEN h \div 2 ELSE 0 - ((0 - h) \div 2)

\* a locator that takes a "page" value only when it is an integer already
PageOfStrict(item) ==
    IF item[1] = "page" THEN [ok |-> TRUE, val |-> item[2]] ELSE ValueError

\* int(item["page"]): the integer, or the exception raised
PageOf(item) ==
    CASE item[1] = "page" -> [ok |-> TRUE, val |-> item[2]]
      [] item[1] = "text" -> int(item[2])
      [] item[1] = "halves" -> [ok |-> TRUE, val |-> Truncate(item[2])]
      [] OTHER -> ValueError

\* space_data.get("space", []): the list iterated
SpaceList(sd) ==
    IF sd.space \in {"absent", "empty mapping"} THEN <<>> ELSE sd.items

\* a locator that counts the page descriptors
TotalOfCount(pages, n) == n

\* max(pages) + 1 if pages else 0
TotalOf(pages, n) == IF n > 0 THEN SetMax(pages) + 1 ELSE 0

\* lines 291-298: total_pages, or the RuntimeError
derive_base_and_pages(sd) ==
    LET space_list == SpaceList(sd)
        conv == [k \in 1..Len(space_list) |-> PageOf(space_list[k])]
        pages == {conv[k].val : k \in 1..Len(space_list)}
    IN  IF sd.space = "not iterable"
           \/ \E k \in 1..Len(space_list) : ~conv[k].ok
        THEN [ok |-> FALSE, total_pages |-> 0]
        ELSE [ok |-> TRUE, total_pages |-> TotalOf(pages, Len(space_list))]

(***************************************************************************)
(* run (scaso.py 511-592).                                                 *)
(***************************************************************************)
\* return 1, after the one diagnostic
RunFail ==
    /\ printed' = printed \cup {"error"}
    /\ status' = 1
    /\ pc' = "run_done"

\* lines 523-540: the Agent raises its RuntimeError, raises another
\* exception, which run does not catch, returns no URL, or returns one
RunCapture ==
    /\ pc = "run_start"
    /\ \/ /\ RunFail
          /\ UNCHANGED space_url
       \/ /\ pc' = "run_raised"
          /\ UNCHANGED <<space_url, status, printed>>
       \/ /\ space_url' = None
          /\ RunFail
       \/ /\ space_url' = <<"space.jsonp">>
          /\ pc' = "run_fetch"
          /\ UNCHANGED <<status, printed>>
    /\ UNCHANGED <<space_data, total_pages, page_indices, disk, opts, dlvars,
                   cbvars, out_dir_made, agvars>>

\* line 543: the Manifest Fetcher
RunFetch ==
    /\ pc = "run_fetch"
    /\ \/ /\ RunFail
          /\ UNCHANGED space_data
       \/ /\ space_data' \in Manifests
          /\ pc' = "run_derive"
          /\ UNCHANGED <<status, printed>>
    /\ UNCHANGED <<space_url, total_pages, page_indices, disk, opts, dlvars,
                   cbvars, out_dir_made, agvars>>

\* lines 544-567: the Asset Locator, the output directory and the indices
RunDerive ==
    /\ pc = "run_derive"
    /\ LET r == derive_base_and_pages(space_data)
           resolved == parse_page_range(page_range, r.total_pages)
       IN  IF ~r.ok
           THEN /\ RunFail
                /\ UNCHANGED <<total_pages, page_indices, out_dir_made>>
           ELSE /\ total_pages' = r.total_pages
                /\ out_dir_made' = TRUE
                /\ page_indices' =
                     IF resolved # <<>>
                        /\ SetMax({resolved[k] : k \in 1..Len(resolved)})
                             >= r.total_pages
                     THEN SelectSeq(resolved, LAMBDA i : i < r.total_pages)
                     ELSE resolved
                /\ pc' = "dl_start"
                /\ UNCHANGED <<status, printed>>
    /\ UNCHANGED <<space_url, space_data, disk, opts, dlvars, cbvars, agvars>>

\* lines 569-582: download_assets has returned
RunCombine ==
    /\ pc = "dl_done"
    /\ IF ~no_pdf /\ "svg" \in formats
       THEN /\ svg_paths' = svg_paths_list
            /\ pc' = "cb_start"
            /\ UNCHANGED printed
       ELSE /\ printed' = printed \cup {"combine skipped"}
            /\ pc' = "run_summary"
            /\ UNCHANGED svg_paths
    /\ UNCHANGED <<cb_pos, writer, pdf_doc, pdf_ret, cb_failed, total_pages,
                   page_indices, disk, opts, dlvars, runvars>>

\* an orchestrator that fails the run when no document was written
RunCombinedChecked ==
    /\ pc = "cb_done"
    /\ IF pdf_ret = "False"
       THEN /\ status' = 1
            /\ pc' = "run_done"
       ELSE /\ pc' = "run_summary"
            /\ UNCHANGED status
    /\ UNCHANGED <<total_pages, page_indices, disk, opts, dlvars, cbvars,
                   printed, space_url, space_data, out_dir_made, agvars>>

\* combine_svgs_to_pdf has returned; its result is dropped
RunCombined ==
    /\ pc = "cb_done"
    /\ pc' = "run_summary"
    /\ UNCHANGED <<total_pages, page_indices, disk, opts, dlvars, cbvars,
                   printed, runvars>>

\* lines 584-592
RunSummary ==
    /\ pc = "run_summary"
    /\ printed' = printed \cup {"summary"}
    /\ status' = 0
    /\ pc' = "run_done"
    /\ UNCHANGED <<space_url, space_data, total_pages, page_indices, disk,
                   opts, dlvars, cbvars, out_dir_made, agvars>>

RunIdle ==
    /\ space_url = None
    /\ space_data = NoManifest
    /\ status = -1
    /\ out_dir_made = FALSE
    /\ AgentIdle

(***************************************************************************)
(* The page range resolver on its own: parse_page_range applied to every   *)
(* spec over Alphabet up to MaxSpecLen and every total up to MaxTotal.     *)
(***************************************************************************)
RangeSpecs == {None} \cup StringsUpTo(MaxSpecLen)

InitRange ==
    /\ pc = "resolve"
    /\ page_range \in RangeSpecs
    /\ total_pages \in 0..MaxTotal
    /\ page_indices = <<>>
    /\ formats = {}
    /\ retries = DEFAULT_RETRIES
    /\ throttle_ms = DEFAULT_THROTTLE_MS
    /\ no_pdf = FALSE
    /\ pdf_engine = "cairosvg"
    /\ disk = [f \in Files |-> "missing"]
    /\ printed = {}
    /\ DlIdle
    /\ CbIdle
    /\ RunIdle

Resolve ==
    /\ pc = "resolve"
    /\ page_indices' = parse_page_range(page_range, total_pages)
    /\ pc' = "resolved"
    /\ UNCHANGED <<total_pages, disk, opts, dlvars, cbvars, printed, runvars>>

NextRange == Resolve

SpecRange == InitRange /\ [][NextRange]_vars

(***************************************************************************)
(* The asset downloader on its own: download_assets called with every      *)
(* ascending index tuple below total_pages, every format set, and every    *)
(* state of the page files; when it has returned it may be called again    *)
(* with the same arguments on the directory it left.                       *)
(***************************************************************************)
SUPPORTED_FORMATS == {"svg", "mxl", "mid", "midi"}

AscendingTuples(n) == {sorted(S) : S \in SUBSET (0..(n - 1))}

\* the output directory before a call: page files in any state
DirsBefore(total) ==
    {d \in [Files -> {"missing", "empty", "old"}] :
       /\ d[Mxl] = "missing"
       /\ d[Mid] = "missing"
       /\ d[Pdf] = "missing"
       /\ \A i \in 0..(MaxPages - 1) : i >= total => d[Svg(i)] = "missing"}

InitDownload ==
    /\ pc = "dl_start"
    /\ page_range = None
    /\ total_pages \in 0..MaxPages
    /\ page_indices \in AscendingTuples(total_pages)
    /\ formats \in SUBSET SUPPORTED_FORMATS
    /\ retries \in 0..MaxRetries
    /\ throttle_ms \in {0, DEFAULT_THROTTLE_MS}
    /\ no_pdf = FALSE
    /\ pdf_engine = "cairosvg"
    /\ disk \in DirsBefore(total_pages)
    /\ printed = {}
    /\ DlIdle
    /\ CbIdle
    /\ RunIdle

\* download_assets is called again: what the last call wrote is now old
Rerun ==
    /\ pc = "dl_done"
    /\ pc' = "dl_start"
    /\ disk' = [f \in Files |-> IF disk[f] = "new" THEN "old" ELSE disk[f]]
    /\ pos' = 1
    /\ site' = "none"
    /\ attempt' = 0
    /\ resp' = NoResponse
    /\ data' = None
    /\ svg_paths_list' = <<>>
    /\ mxl_path' = None
    /\ mid_path' = None
    /\ requests' = NoRequests
    /\ events' = <<>>
    /\ UNCHANGED <<total_pages, page_indices, opts, cbvars, printed, runvars>>

NextDownload == Download \/ Rerun

SpecDownload == InitDownload /\ [][NextDownload]_vars

(***************************************************************************)
(* One call of download_assets run to its return.  The program is          *)
(* sequential, every request has its timeout and every sleep its length,   *)
(* so a step that can be taken is taken.                                   *)
(***************************************************************************)
NextOnce == Download

SpecOnce == InitDownload /\ [][NextOnce]_vars /\ WF_vars(NextOnce)

(***************************************************************************)
(* The retry loop followed to its end: download_assets called for one page *)
(* and one auxiliary asset at most, with up to MaxLoopRetries retries.     *)
(***************************************************************************)
InitRetry ==
    /\ pc = "dl_start"
    /\ page_range = None
    /\ total_pages = 1
    /\ page_indices = <<0>>
    /\ formats \in {{"svg"}, {"mxl"}, {"svg", "mid"}}
    /\ retries \in 0..MaxLoopRetries
    /\ throttle_ms \in {0, DEFAULT_THROTTLE_MS}
    /\ no_pdf = FALSE
    /\ pdf_engine = "cairosvg"
    /\ disk \in {d \in DirsBefore(1) : d[Svg(0)] # "empty"}
    /\ printed = {}
    /\ DlIdle
    /\ CbIdle
    /\ RunIdle

NextRetry == Download

SpecRetry == InitRetry /\ [][NextRetry]_vars

(***************************************************************************)
(* The document assembler on its own: combine_svgs_to_pdf called with      *)
(* every ascending tuple of up to MaxFiles page files and every engine,    *)
(* with and without a document left by an earlier run.                     *)
(***************************************************************************)
InitCombine ==
    /\ pc = "cb_start"
    /\ page_range = None
    /\ total_pages = 0
    /\ page_indices = <<>>
    /\ formats = {"svg"}
    /\ retries = DEFAULT_RETRIES
    /\ throttle_ms = DEFAULT_THROTTLE_MS
    /\ no_pdf = FALSE
    /\ pdf_engine \in Engines
    /\ disk \in {d \in [Files -> {"missing", "old"}] :
                   \A f \in Files \ {Pdf} : d[f] = "missing"}
    /\ printed = {}
    /\ DlIdle
    /\ svg_paths \in AscendingTuples(MaxFiles)
    /\ cb_pos = 1
    /\ writer = <<>>
    /\ pdf_doc = None
    /\ pdf_ret = "none"
    /\ cb_failed = {}
    /\ RunIdle

NextCombine == Combine

SpecCombine == InitCombine /\ [][NextCombine]_vars

(***************************************************************************)
(* The asset locator on its own: derive_base_and_pages applied to every    *)
(* manifest whose "space" value is a list of up to MaxDescriptors elements,*)
(* is absent, cannot be iterated, or is an empty mapping.                  *)
(***************************************************************************)
\* the elements: integer pages, pages given as text, a page of 1.5, and an
\* element without a usable "page"
DeriveItems ==
    {PageItem(n) : n \in 0..MaxIndex}
    \cup {TextItem(<<"2">>), TextItem(<<"x">>), HalvesItem(3), BadItem}

RECURSIVE TuplesOver(_, _)
TuplesOver(S, n) ==
    IF n = 0 THEN {<<>>}
    ELSE LET shorter == TuplesOver(S, n - 1)
             longest == {t \in shorter : Len(t) = n - 1}
         IN  shorter \cup {Append(t, x) : t \in longest, x \in S}

DeriveManifests ==
    [space : {"list"}, items : TuplesOver(DeriveItems, MaxDescriptors)]
    \cup {[space |-> "absent", items |-> <<>>],
          [space |-> "not iterable", items |-> <<>>],
          [space |-> "empty mapping", items |-> <<>>]}

InitDerive ==
    /\ pc = "derive"
    /\ page_range = None
    /\ total_pages = 0
    /\ page_indices = <<>>
    /\ formats = {}
    /\ retries = DEFAULT_RETRIES
    /\ throttle_ms = DEFAULT_THROTTLE_MS
    /\ no_pdf = FALSE
    /\ pdf_engine = "cairosvg"
    /\ disk = [f \in Files |-> "missing"]
    /\ printed = {}
    /\ DlIdle
    /\ CbIdle
    /\ space_url = <<"space.jsonp">>
    /\ space_data \in DeriveManifests
    /\ status = -1
    /\ out_dir_made = FALSE
    /\ AgentIdle

\* one call of derive_base_and_pages: it returns, or notifies and raises
Derive ==
    /\ pc = "derive"
    /\ LET r == derive_base_and_pages(space_data)
       IN  IF r.ok
           THEN /\ total_pages' = r.total_pages
                /\ pc' = "derive_ret"
                /\ UNCHANGED printed
           ELSE /\ printed' = printed \cup {"could not extract pages"}
                /\ pc' = "derive_raised"
                /\ UNCHANGED total_pages
    /\ UNCHANGED <<page_indices, disk, opts, dlvars, cbvars, runvars>>

NextDerive == Derive

SpecDerive == InitDerive /\ [][NextDerive]_vars

(***************************************************************************)
(* The Agent on its own: capture_space_jsonp_and_title with every sequence *)
(* of up to MaxObserved requests and every failure of its steps.           *)
(***************************************************************************)
InitAgent ==
    /\ pc = "agent_start"
    /\ page_range = None
    /\ total_pages = 0
    /\ page_indices = <<>>
    /\ formats = {"svg"}
    /\ retries = DEFAULT_RETRIES
    /\ throttle_ms = DEFAULT_THROTTLE_MS
    /\ no_pdf = FALSE
    /\ pdf_engine = "cairosvg"
    /\ disk = [f \in Files |-> "missing"]
    /\ printed = {}
    /\ DlIdle
    /\ CbIdle
    /\ RunIdle

NextAgent == Agent

SpecAgent == InitAgent /\ [][NextAgent]_vars

(***************************************************************************)
(* The whole run.                                                          *)
(***************************************************************************)
\* the range specs, format tuples and engines a run is started with
RunRangeSpecs == {None, <<"2">>, <<"1", "-", "2", ",", "5">>}
RunFormats == {{"svg"}, {"svg", "mxl", "mid"}, {"mxl", "midi"}}

InitRun ==
    /\ pc = "run_start"
    /\ page_range \in RunRangeSpecs
    /\ total_pages = 0
    /\ page_indices = <<>>
    /\ formats \in RunFormats
    /\ retries \in 0..MaxRetries
    /\ throttle_ms = DEFAULT_THROTTLE_MS
    /\ no_pdf \in BOOLEAN
    /\ pdf_engine \in Engines
    /\ disk \in DirsBefore(MaxPages)
    /\ printed = {}
    /\ DlIdle
    /\ CbIdle
    /\ RunIdle

Run ==
    \/ RunCapture \/ RunFetch \/ RunDerive \/ RunCombine \/ RunCombined
    \/ RunSummary

NextRun == Run \/ Download \/ Combine

SpecRun == InitRun /\ [][NextRun]_vars

(***************************************************************************)
(* Properties of the page range resolver (under SpecRange).                *)
(***************************************************************************)
StrictlyAscending(t) == \A j, k \in 1..Len(t) : j < k => t[j] < t[k]

EmptySpec == page_range = None \/ page_range = <<>>

\* What one token stands for.  A token holding a dash is a range a-b, a the
\* integer before its first dash and b the integer after it, and stands for
\* the pages max(1,a)..min(T,b); any other token is a single integer n and
\* stands for page n when 1 <= n <= T.  Text that is no integer stands for
\* nothing.  Pages are given as 0-based indices.
TokenIndices(tok, T) ==
    LET k == FirstIndex(tok, "-")
        a == int(SubSeq(tok, 1, k - 1))
        b == int(SubSeq(tok, k + 1, Len(tok)))
        n == int(tok)
    IN  IF k > 0
        THEN IF a.ok /\ b.ok
             THEN {i \in 0..(T - 1) :
                     Max(1, a.val) <= i + 1 /\ i + 1 <= Min(T, b.val)}
             ELSE {}
        ELSE IF n.ok THEN {i \in 0..(T - 1) : i + 1 = n.val} ELSE {}

\* the indices the tokens of the range spec stand for, together
Contributed ==
    LET tokens == Parts(page_range)
    IN  UNION {TokenIndices(tokens[k], total_pages) : k \in 1..Len(tokens)}

\* C5: for every page count T >= 0 and every range spec, malformed, negative,
\* zero, reversed and out-of-range tokens included, parse_page_range returns
\* a strictly ascending sequence of indices, each in 0..T-1.
C5_SortedUniqueInRange ==
    pc = "resolved" =>
        /\ StrictlyAscending(page_indices)
        /\ \A k \in 1..Len(page_indices) :
             0 <= page_indices[k] /\ page_indices[k] <= total_pages - 1

\* C5 witness: the spec "5,2,1", an out-of-range page and two pages given
\* out of order, resolved to the indices 0 and 1.
C5_Witness ==
    /\ pc = "resolved"
    /\ page_range = <<"5", ",", "2", ",", "1">>
    /\ total_pages = MaxTotal
    /\ page_indices = <<0, 1>>

\* C6: with no range spec (None) or an empty one, parse_page_range yields
\* exactly the indices 0..T-1 in order, the empty sequence when T = 0.
C6_DefaultIsAllPages ==
    pc = "resolved" /\ EmptySpec =>
        /\ Len(page_indices) = total_pages
        /\ \A k \in 1..total_pages : page_indices[k] = k - 1

\* C6 witness: None resolved against the largest page count.
C6_Witness ==
    /\ pc = "resolved"
    /\ page_range = None
    /\ total_pages = MaxTotal
    /\ Len(page_indices) = MaxTotal

\* C7: when the tokens of a non-empty range spec stand for no index at all,
\* parse_page_range returns all indices 0..T-1, not the empty sequence.
C7_EmptyFallsBackToAll ==
    pc = "resolved" /\ ~EmptySpec /\ Contributed = {} =>
        /\ Len(page_indices) = total_pages
        /\ \A k \in 1..total_pages : page_indices[k] = k - 1

\* C7 witness: a spec whose tokens are a reversed range and a page beyond the
\* last, resolved to every page.
C7_Witness ==
    /\ pc = "resolved"
    /\ page_range = <<"2", "-", "1", ",", "5">>
    /\ total_pages = MaxTotal
    /\ page_indices = <<0, 1, 2, 3>>

\* C8: when at least one token stands for an index, parse_page_range returns
\* exactly the union of what the tokens stand for, each index once, and the
\* full range is not substituted.
C8_ExactlyTheUnion ==
    pc = "resolved" /\ ~EmptySpec /\ Contributed # {} =>
        /\ {page_indices[k] : k \in 1..Len(page_indices)} = Contributed
        /\ Len(page_indices) = Cardinality(Contributed)

\* C8 witness: the spec "1-2,5" with T = 4 resolved to the indices 0 and 1.
C8_Witness ==
    /\ pc = "resolved"
    /\ page_range = <<"1", "-", "2", ",", "5">>
    /\ total_pages = 4
    /\ page_indices = <<0, 1>>

(***************************************************************************)
(* Properties of the asset downloader (under SpecDownload).                *)
(***************************************************************************)
PagesWanted == want_svg /\ total_pages > 0

\* the places of page_indices whose turn in the page loop is over
PagesSettled ==
    IF pc = "dl_start" \/ ~PagesWanted THEN {}
    ELSE IF pc = "dl_pages" \/ (pc \in {"http_loop", "http_ret"} /\ site = "svg")
    THEN 1..(pos - 1)
    ELSE 1..Len(page_indices)

MxlSettled ==
    \/ pc \in {"dl_mid", "dl_done"}
    \/ pc \in {"http_loop", "http_ret"} /\ site = "mid"

MidSettled == pc = "dl_done"

Saved == {svg_paths_list[k] : k \in 1..Len(svg_paths_list)}

\* the budget of a fetched asset: a saved one took between one and
\* retries+1 requests, a failed one took all retries+1
FullBudget(asset, saved) ==
    IF saved THEN 1 <= requests[asset] /\ requests[asset] <= retries + 1
    ELSE requests[asset] = retries + 1

\* C1: a page that fails every one of its retries+1 attempts is left out of
\* the page list and blocks nothing: the run goes on, and every later page
\* without a non-empty file, and every requested auxiliary asset, gets its
\* own budget of retries+1 attempts whatever happened to the assets before.
C1_FailureDoesNotBlock ==
    /\ \A k \in PagesSettled :
         LET f == Svg(page_indices[k])
         IN  CASE disk[f] = "old" -> requests[f] = 0
               [] disk[f] = "new" ->
                    FullBudget(f, TRUE) /\ page_indices[k] \in Saved
               [] OTHER ->
                    FullBudget(f, FALSE) /\ page_indices[k] \notin Saved
    /\ MxlSettled /\ want_mxl => FullBudget(Mxl, mxl_path # None)
    /\ MidSettled /\ want_mid => FullBudget(Mid, mid_path # None)
    /\ pc # "dl_done" => ENABLED Download

\* C1 witness: download_assets has returned; the first of two pages failed
\* all its attempts, the second was saved at its last attempt, MusicXML
\* failed all its attempts and MIDI was saved.
C1_Witness ==
    /\ pc = "dl_done"
    /\ PagesWanted /\ want_mxl /\ want_mid
    /\ retries = MaxRetries
    /\ page_indices = <<0, 1>>
    /\ svg_paths_list = <<1>>
    /\ requests[Svg(0)] = retries + 1
    /\ requests[Svg(1)] = retries + 1
    /\ requests[Mxl] = retries + 1
    /\ mxl_path = None
    /\ mid_path = Mid

\* a response with status 200 and a body that is not empty
GoodResponse(r) == ~r.exc /\ r.status_code = 200 /\ r.content = SomeBytes

\* the state of one call of _http_get: while the loop runs every request so
\* far has failed; when it has returned it issued between 1 and retries+1
\* requests and returns the body of a good last response, or None after
\* retries+1 failed ones
C2_CallState ==
    pc \in {"http_loop", "http_ret"} =>
        LET n == requests[CurrentAsset]
        IN  /\ n <= retries + 1
            /\ pc = "http_loop" =>
                 /\ n = attempt
                 /\ data = None
                 /\ n > 0 => ~GoodResponse(resp)
            /\ pc = "http_ret" =>
                 /\ n >= 1
                 /\ IF GoodResponse(resp)
                    THEN data = resp.content /\ n = attempt + 1
                    ELSE data = None /\ n = retries + 1

\* a request is issued only inside the loop, for the asset being fetched, one
\* at a time, and never after a good response
C2_RequestStep ==
    requests' # requests /\ pc # "dl_done" =>
        /\ pc = "http_loop"
        /\ ~GoodResponse(resp)
        /\ requests' = [requests EXCEPT ![CurrentAsset] = @ + 1]

\* C2: for retries >= 0, _http_get issues between 1 and retries+1 requests
\* for one asset; an attempt succeeds only on a 200 with a non-empty body
\* (a 200 with an empty body, another status and a transport error are failed
\* attempts); the first success ends the loop and returns its body, no
\* request follows it; None is returned exactly when all retries+1 attempts
\* failed.
C2_BoundedAttempts == []C2_CallState /\ [][C2_RequestStep]_vars

\* C2 witness: a call of _http_get returns the body it got at its last
\* attempt, after the attempts before it failed.
C2_Witness ==
    /\ pc = "http_ret"
    /\ retries = MaxRetries
    /\ retries >= 1
    /\ requests[CurrentAsset] = retries + 1
    /\ data = SomeBytes

\* every requested page has a non-empty file that this call did not write
AllPagesWereOnDisk ==
    \A k \in 1..Len(page_indices) : disk[Svg(page_indices[k])] = "old"

RECURSIVE Sum(_, _)
Sum(f, S) ==
    IF S = {} THEN 0
    ELSE LET x == CHOOSE y \in S : TRUE IN f[x] + Sum(f, S \ {x})

TotalRequests == Sum(requests, Files)

\* C3 as stated: a call of download_assets for some pages that finds
\* non-empty files for all requested page indices issues no network request
\* at all, whatever formats are requested.
C3_NoRequestsAtAll ==
    pc = "dl_done" /\ PagesWanted /\ page_indices # <<>> /\ AllPagesWereOnDisk
        => TotalRequests = 0

\* C3 as amended: such a call issues no request for any page, whatever
\* formats are requested, and no request at all when neither mxl nor
\* mid/midi is requested; a requested auxiliary asset is fetched again.
C3_NoPageRequests ==
    pc = "dl_done" /\ AllPagesWereOnDisk =>
        /\ \A i \in 0..(MaxPages - 1) : requests[Svg(i)] = 0
        /\ ~want_mxl /\ ~want_mid => TotalRequests = 0
        /\ want_mxl => requests[Mxl] >= 1
        /\ want_mid => requests[Mid] >= 1

\* C3 witness: download_assets has returned from a second call, which found
\* both requested pages and the MusicXML file the first call saved, skipped
\* the pages and asked for MusicXML again, this time in vain.
C3_Witness ==
    /\ pc = "dl_done"
    /\ PagesWanted /\ want_mxl
    /\ page_indices = <<0, 1>>
    /\ disk[Svg(0)] = "old" /\ disk[Svg(1)] = "old"
    /\ svg_paths_list = <<0, 1>>
    /\ requests[Svg(0)] = 0 /\ requests[Svg(1)] = 0
    /\ requests[Mxl] = retries + 1
    /\ mxl_path = None
    /\ disk[Mxl] = "old"

(***************************************************************************)
(* Properties of the asset locator (under SpecDerive).                     *)
(***************************************************************************)
\* the manifest's "space" value is a list whose elements all carry an
\* integer "page"
IntegerPages(sd) ==
    /\ sd.space = "list"
    /\ \A k \in 1..Len(sd.items) : sd.items[k][1] = "page"

\* the page indices of such a manifest
Indices(sd) == {sd.items[k][2] : k \in 1..Len(sd.items)}

\* C11: derive_base_and_pages returns as total page count the largest page
\* index of the manifest's descriptors plus one, whatever the gaps, the
\* duplicates and the order of the indices (two manifests with the same set
\* of indices give the same count), and 0 when the array is empty or absent.
C11_TotalIsMaxPlusOne ==
    /\ IntegerPages(space_data) \/ space_data.space = "absent" =>
         pc # "derive_raised"
    /\ pc = "derive_ret" /\ space_data.space = "absent" => total_pages = 0
    /\ pc = "derive_ret" /\ IntegerPages(space_data) =>
         /\ space_data.items = <<>> => total_pages = 0
         /\ space_data.items # <<>> =>
              /\ total_pages - 1 \in Indices(space_data)
              /\ \A i \in Indices(space_data) : i <= total_pages - 1
         /\ \A m \in DeriveManifests :
              IntegerPages(m) /\ Indices(m) = Indices(space_data) =>
                  derive_base_and_pages(m).total_pages = total_pages

\* C11 witness: the descriptors with indices 0, 1 and 3 give 4 pages.
C11_Witness ==
    /\ pc = "derive_ret"
    /\ space_data.space = "list"
    /\ space_data.items = <<PageItem(0), PageItem(1), PageItem(3)>>
    /\ total_pages = 4

\* the manifest has no "space" array, or a "space" value that is no list, or
\* a list with an element whose "page" is not an integer
MissingOrMalformed(sd) ==
    \/ sd.space # "list"
    \/ \E k \in 1..Len(sd.items) : sd.items[k][1] # "page"

\* the element has no "page", or one that is no number and no decimal text
Unconvertible(item) ==
    \/ item = BadItem
    \/ item[1] = "text" /\ ~int(item[2]).ok

\* C12 as stated: derive_base_and_pages fails with the extraction error
\* whenever the page array is missing or malformed or an element lacks a
\* valid integer page index, and returns no page count for such a manifest.
C12_FailsOnMissingOrMalformed ==
    pc # "derive" /\ MissingOrMalformed(space_data) => pc = "derive_raised"

\* C12 as amended: derive_base_and_pages fails with the extraction error,
\* returning no page count, exactly when the "space" value is there but
\* cannot be iterated, or an element of the list has no "page" value that
\* int() converts.  A manifest without a "space" array is no error and
\* gives 0 pages, as does an empty mapping in its place; a page given as
\* decimal text or as a number with a fraction is converted, not rejected.
C12_FailsOnUnusableManifest ==
    pc # "derive" =>
        /\ pc = "derive_raised" <=>
             \/ space_data.space = "not iterable"
             \/ \E k \in 1..Len(space_data.items) :
                   Unconvertible(space_data.items[k])
        /\ pc = "derive_raised" =>
             total_pages = 0 /\ "could not extract pages" \in printed
        /\ space_data.space \in {"absent", "empty mapping"} =>
             pc = "derive_ret" /\ total_pages = 0
        /\ pc = "derive_ret" => printed = {}

\* C12 witness: a list whose second element has no usable "page": the
\* extraction error, and no page count.
C12_Witness ==
    /\ pc = "derive_raised"
    /\ space_data.space = "list"
    /\ space_data.items = <<PageItem(0), BadItem, PageItem(1)>>
    /\ total_pages = 0
    /\ "could not extract pages" \in printed

(***************************************************************************)
(* Properties of the orchestrator (under SpecRun).                         *)
(***************************************************************************)
\* the Agent captured a manifest URL, the Manifest Fetcher returned a
\* manifest and the Asset Locator found its page count
StagesSucceeded ==
    /\ space_url # None
    /\ space_data # NoManifest
    /\ derive_base_and_pages(space_data).ok
    /\ pc # "run_derive"

\* C4: run returns the failure status only if the Agent, the Manifest
\* Fetcher or the Asset Locator failed; when the three succeed it goes on to
\* the summary and returns 0, whichever pages fail all attempts, whether
\* MusicXML and MIDI are there, whether assembly is skipped, the engine is
\* unknown or page conversions fail.
C4_OnlyStageFailuresFail ==
    /\ status \in {-1, 0, 1}
    /\ status = 1 => ~StagesSucceeded /\ pc = "run_done"
    /\ StagesSucceeded =>
         /\ pc = "run_done" => status = 0 /\ "summary" \in printed
         /\ pc # "run_done" => status = -1 /\ ENABLED NextRun

\* C4 witness: run has returned 0 after a run in which one of two pages
\* failed all its attempts, MusicXML and MIDI were not to be had, and the
\* one saved page could not be converted.
C4_Witness ==
    /\ pc = "run_done"
    /\ status = 0
    /\ formats = {"svg", "mxl", "mid"}
    /\ page_indices = <<0, 1>>
    /\ svg_paths_list = <<1>>
    /\ requests[Svg(0)] = retries + 1
    /\ mxl_path = None /\ mid_path = None
    /\ cb_failed = {1}
    /\ pdf_ret = "True"
    /\ "summary" \in printed

(***************************************************************************)
(* Properties of the document assembler (under SpecCombine).               *)
(***************************************************************************)
Converted(f) == f \notin cb_failed

\* C9: with a recognized engine and page files to combine, whichever page
\* files fail to convert, the pages of the written document are those of the
\* convertible files, in the order of the input; a failing page is skipped,
\* and the loop goes on to the pages after it.
C9_ConvertiblePagesInOrder ==
    /\ pc = "cb_loop" =>
         /\ writer = SelectSeq(SubSeq(svg_paths, 1, cb_pos - 1), Converted)
         /\ cb_failed \subseteq {svg_paths[k] : k \in 1..(cb_pos - 1)}
         /\ ENABLED Combine
    /\ pc = "cb_done" /\ pdf_ret = "True" =>
         /\ cb_pos = Len(svg_paths) + 1
         /\ pdf_doc = SelectSeq(svg_paths, Converted)

\* C9 witness: a document written from three page files of which the second
\* failed to convert: it holds the first and the third, in that order.
C9_Witness ==
    /\ pc = "cb_done"
    /\ pdf_ret = "True"
    /\ svg_paths = <<0, 1, 2>>
    /\ cb_failed = {1}
    /\ pdf_doc = <<0, 2>>

\* none of the steps that read, convert or write a file has been taken
NothingDone ==
    /\ writer = <<>>
    /\ cb_failed = {}
    /\ pdf_doc = None
    /\ disk[Pdf] # "new"

NoOpCase ==
    svg_paths = <<>> \/ pdf_engine = "none" \/ pdf_engine \notin PDF_ENGINES

\* C10 as stated: combine_svgs_to_pdf returns false, converting no page and
\* writing no document, when the page file list is empty, when the engine is
\* "none", and when the engine is unrecognized, and in this last case it
\* emits the unknown-engine diagnostic.
C10_NoOpCasesAsStated ==
    pc = "cb_done" /\ NoOpCase =>
        /\ pdf_ret = "False"
        /\ NothingDone
        /\ pdf_engine \notin PDF_ENGINES => "unknown engine" \in printed

\* C10 as amended: the same, with the unknown-engine diagnostic emitted when
\* the engine is unrecognized and the page file list is not empty; with an
\* empty list the only message is that there is nothing to combine.
C10_NoOpCases ==
    pc = "cb_done" /\ NoOpCase =>
        /\ pdf_ret = "False"
        /\ NothingDone
        /\ pdf_engine \notin PDF_ENGINES /\ svg_paths # <<>>
             => "unknown engine" \in printed
        /\ svg_paths = <<>> => printed = {"no svgs"}

\* C10 witness: an unrecognized engine with page files to combine: false is
\* returned, the diagnostic is out, nothing is converted or written.
C10_Witness ==
    /\ pc = "cb_done"
    /\ pdf_engine \notin PDF_ENGINES
    /\ svg_paths # <<>>
    /\ pdf_ret = "False"
    /\ printed = {"unknown engine"}
    /\ NothingDone

\* what holds of every return of combine_svgs_to_pdf: true is returned with
\* the document written, false with no document written
TrueIffPersisted ==
    /\ pc \in {"cb_start", "cb_loop"} =>
         pdf_ret = "none" /\ pdf_doc = None /\ disk[Pdf] # "new"
    /\ pc = "cb_done" =>
         /\ pdf_ret \in {"True", "False"}
         /\ pdf_ret = "True" <=> disk[Pdf] = "new"
         /\ pdf_ret = "True" =>
              /\ cb_pos = Len(svg_paths) + 1
              /\ pdf_doc = writer
              /\ Len(pdf_doc) = Len(svg_paths) - Cardinality(cb_failed)
         /\ pdf_ret = "False" => pdf_doc = None /\ writer = <<>>

\* C13 as stated: combine_svgs_to_pdf returns true if and only if it wrote
\* the document, and with a recognized engine and page files to combine it
\* always writes the document and returns true.
C13_RecognizedEngineAlwaysWrites ==
    /\ TrueIffPersisted
    /\ pc = "cb_done" /\ svg_paths # <<>> /\ pdf_engine = "cairosvg" =>
         pdf_ret = "True"

\* C13 as amended: combine_svgs_to_pdf returns true if and only if it wrote
\* the document; with the engine cairosvg and page files to combine it
\* writes the document after the last page file and returns true, also when
\* every conversion failed and the document has no page, unless cairosvg or
\* pypdf cannot be imported: then it reports the missing dependency and
\* returns false with no page file read and no document written.
C13_WritesUnlessDependencyMissing ==
    /\ TrueIffPersisted
    /\ pc = "cb_done" /\ svg_paths # <<>> /\ pdf_engine = "cairosvg" =>
         IF "missing dependency" \in printed
         THEN pdf_ret = "False" /\ cb_failed = {} /\ cb_pos = 1
         ELSE pdf_ret = "True"
    /\ "missing dependency" \in printed =>
         svg_paths # <<>> /\ pdf_engine = "cairosvg"

\* C13 witness: every one of three page files failed to convert, and a
\* document without pages was written and true returned.
C13_Witness ==
    /\ pc = "cb_done"
    /\ pdf_engine = "cairosvg"
    /\ svg_paths = <<0, 1, 2>>
    /\ cb_failed = {0, 1, 2}
    /\ pdf_doc = <<>>
    /\ disk[Pdf] = "new"
    /\ pdf_ret = "True"

(***************************************************************************)
(* The order of what one asset's fetch does (under SpecDownload).          *)
(***************************************************************************)
\* C14: for a page fetched successfully the bytes are persisted before the
\* throttle sleep is taken: in the record of what the fetch of a page did,
\* no throttle sleep comes before the persisting of the page's bytes.
C14_PersistThenThrottle ==
    site = "svg" =>
        \A j, k \in 1..Len(events) :
            events[j][1] = "throttle" /\ events[k][1] = "persist" => k < j

(***************************************************************************)
(* The backoff of the retry loop (under SpecRetry).                        *)
(***************************************************************************)
\* the record of one call of _http_get: attempt 0 comes first, and every
\* later attempt k+1 comes right after one backoff sleep of k x base, which
\* comes right after attempt k; a backoff sleep is followed by an attempt
BackoffShape ==
    pc \in {"http_loop", "http_ret"} =>
        /\ events # <<>> => events[1] = <<"request", 0>>
        /\ \A n \in 2..Len(events) :
             /\ events[n][1] = "request" =>
                  /\ n >= 3
                  /\ events[n][2] >= 1
                  /\ events[n - 1] = <<"backoff", events[n][2] * BACKOFF_MS>>
                  /\ events[n - 2] = <<"request", events[n][2] - 1>>
             /\ events[n][1] = "backoff" => events[n - 1][1] = "request"
        /\ pc = "http_loop" /\ attempt <= retries /\ events # <<>> =>
             events[Len(events)][1] = "backoff"

\* an attempt that fails, by a transport error or by a bad response, with
\* attempts left is followed by the backoff sleep of its 1-based number
\* times the base, and the next attempt is the one after it
BackoffStep ==
    requests' # requests /\ pc = "http_loop" /\ ~GoodResponse(resp') =>
        /\ attempt' = attempt + 1
        /\ events' = events \o <<<<"request", attempt>>>> \o
                        (IF attempt < retries
                         THEN <<<<"backoff", (attempt + 1) * BACKOFF_MS>>>>
                         ELSE <<>>)

\* C15: within one asset's retry loop, between failed attempt k (1-based)
\* and attempt k+1 there is exactly one backoff sleep, of k x base, so the
\* delays are base, 2 x base, 3 x base, ...; no attempt after the first
\* starts without the backoff sleep before it, after a transport error and
\* after a bad HTTP response alike.
C15_LinearBackoff == []BackoffShape /\ [][BackoffStep]_vars

\* C15 witness: a call of _http_get that got its body at the fourth attempt,
\* after sleeps of base, 2 x base and 3 x base.
C15_Witness ==
    /\ pc = "http_ret"
    /\ data = SomeBytes
    /\ Len(events) >= 7
    /\ SubSeq(events, 1, 7) =
         << <<"request", 0>>, <<"backoff", BACKOFF_MS>>,
            <<"request", 1>>, <<"backoff", 2 * BACKOFF_MS>>,
            <<"request", 2>>, <<"backoff", 3 * BACKOFF_MS>>,
            <<"request", 3>> >>

(***************************************************************************)
(* Properties of the Agent (under SpecAgent).                              *)
(***************************************************************************)
\* the requests seen so far whose URL holds the manifest path fragment
Matching == SelectSeq(observed, IsSpaceJsonp)

\* C16: for every sequence of requests seen in the browser session, the
\* captured manifest URL is the URL of the first request that matches the
\* manifest path fragment; later matching requests do not overwrite it; it
\* is None if and only if no request matched; and it is what the Agent
\* returns.
C16_FirstMatchWins ==
    /\ agent_url = IF Matching = <<>> THEN None ELSE Matching[1]
    /\ agent_url = None <=>
         \A k \in 1..Len(observed) : ~IsSpaceJsonp(observed[k])
    /\ pc = "agent_ret" => space_url = agent_url

\* C16 witness: the Agent returned after three requests, the second and the
\* third for two different manifest URLs: the second request's URL is the
\* one captured.
C16_Witness ==
    /\ pc = "agent_ret"
    /\ observed = << <<"site", "score">>, <<"cdn", "b", "space.jsonp">>,
                     <<"cdn", "a", "space.jsonp">> >>
    /\ space_url = <<"cdn", "b", "space.jsonp">>

UpstreamFailed == pc \in {"run_done", "run_raised"} /\ ~StagesSucceeded

\* no stage after the Asset Locator has done anything
NoDownstreamStage ==
    /\ ~out_dir_made
    /\ TotalRequests = 0
    /\ \A f \in Files : disk[f] # "new"
    /\ DlIdle
    /\ CbIdle

\* C18: when the Agent fails or captures no manifest URL, or the Manifest
\* Fetcher or the Asset Locator fails, run ends with the failure status and
\* no downstream stage has run: the output directory is not created, no
\* asset is requested, no file is written, assembly is not attempted.
C18_UpstreamFailureAborts ==
    UpstreamFailed => status = 1 /\ NoDownstreamStage

(***************************************************************************)
(* The page loop of the downloader (under SpecDownload).                   *)
(***************************************************************************)
\* the page loop is about to take up the index at pos
PageTurn == pc = "dl_pages" /\ pos <= Len(page_indices)

\* a file that is there and not of zero length
NonEmptyFile(f) == disk[f] \in {"old", "new"}

\* what the page loop does with the index at pos: with a non-empty file at
\* its path, no request, the file as it was, the path in the page list; with
\* no file or one of zero length, a call of _http_get for the page
SkipOrFetchStep ==
    PageTurn =>
        LET i == page_indices[pos]
        IN  IF NonEmptyFile(Svg(i))
            THEN /\ requests' = requests
                 /\ disk' = disk
                 /\ svg_paths_list' = Append(svg_paths_list, i)
                 /\ pos' = pos + 1
            ELSE /\ pc' = "http_loop"
                 /\ site' = "svg"
                 /\ attempt' = 0
                 /\ pos' = pos
                 /\ UNCHANGED <<requests, disk, svg_paths_list>>

\* what holds of the indices whose turn is over: one with a file of before
\* was not requested and is in the page list; any other was requested
SkippedOrFetched ==
    /\ \A k \in PagesSettled :
         LET i == page_indices[k]
         IN  IF disk[Svg(i)] = "old"
             THEN requests[Svg(i)] = 0 /\ i \in Saved
             ELSE requests[Svg(i)] >= 1
    /\ pc = "http_ret" /\ site = "svg" => requests[CurrentAsset] >= 1

AuxPhase ==
    \/ pc \in {"dl_mxl", "dl_mid"}
    \/ pc \in {"http_loop", "http_ret"} /\ site \in {"mxl", "mid"}

\* the page list when download_assets returns
PageListExact ==
    /\ StrictlyAscending(svg_paths_list)
    /\ pc = "dl_done" /\ ~PagesWanted => svg_paths_list = <<>>
    /\ pc = "dl_done" /\ PagesWanted =>
         \A k \in 1..Len(page_indices) :
             LET i == page_indices[k]
             IN  CASE disk[Svg(i)] = "old" -> i \in Saved
                   [] disk[Svg(i)] = "new" ->
                        i \in Saved /\ requests[Svg(i)] >= 1
                   [] OTHER ->
                        i \notin Saved /\ requests[Svg(i)] = retries + 1
    /\ Saved \subseteq {page_indices[k] : k \in 1..Len(page_indices)}

\* the fetches of the auxiliary assets leave the page list as it is
AuxKeepsPageList == AuxPhase => svg_paths_list' = svg_paths_list

AuxWanted == (IF want_mxl THEN 1 ELSE 0) + (IF want_mid THEN 1 ELSE 0)

\* the requests issued so far are within the budget of the assets
RequestBound ==
    /\ TotalRequests <= (Len(page_indices) + AuxWanted) * (retries + 1)
    /\ \A f \in Files : requests[f] <= retries + 1

\* C21: download_assets always terminates: whatever the outcomes of its
\* requests, every one failing included, it issues at most (number of
\* requested page indices + number of requested auxiliary assets) x
\* (retries + 1) requests, and then returns its result.
C21_TerminatesWithinBudget == []RequestBound /\ <>(pc = "dl_done")

\* C21 witness: download_assets has returned after every request for two
\* pages, MusicXML and MIDI failed: it used the whole budget.
C21_Witness ==
    /\ pc = "dl_done"
    /\ page_indices = <<0, 1>>
    /\ want_mxl /\ want_mid
    /\ retries = MaxRetries
    /\ svg_paths_list = <<>> /\ mxl_path = None /\ mid_path = None
    /\ TotalRequests = (Len(page_indices) + AuxWanted) * (retries + 1)

====
